---- MODULE Spec2Model ----
(***************************************************************************)
(* foreign-types: owned wrappers and borrowed references over foreign      *)
(* pointers (src/foreign-types/src/lib.rs).                                *)
(*                                                                         *)
(* The model has two parts.  The generation part is the foreign_type!      *)
(* macro applied to a group of declarations.  The runtime part is the      *)
(* operation set of the generated (or hand-written) wrapper pair:          *)
(* from_ptr, as_ptr, deref, deref_mut, drop, clone, and the accessors      *)
(* BarRef::foo / BarRef::foo_mut of the crate documentation.               *)
(*                                                                         *)
(* A pointer is [obj, part]: obj names the foreign allocation (0 is the    *)
(* null pointer) and part the place inside it ("self" is the allocation    *)
(* itself, "foo" is the FOO that lives inside a BAR).                      *)
(***************************************************************************)
EXTENDS Integers, Sequences, FiniteSets, TLC

VARIABLES
    input,      \* generation: the declarations handed to foreign_type!
    pc,         \* generation: "pending" | "expanded"
    result,     \* generation: what the expansion produced
    owned,      \* runtime: every owned value ever made, in creation order
    borrows,    \* runtime: the borrowed references, by slot
    calls,      \* foreign side: invocations of a release operation, per allocation
    freed,      \* foreign side: the allocations a release operation freed
    allocs,     \* foreign side: how many allocations the library has made
    last        \* the operation that ran last, and what it returned

vars == <<input, pc, result, owned, borrows, calls, freed, allocs, last>>

genVars == <<input, pc, result>>
runVars == <<owned, borrows, calls, freed, allocs, last>>

(***************************************************************************)
(* Bounds.                                                                 *)
(***************************************************************************)
MaxFields == 3      \* fields written in one candidate declaration
MaxOwned == 2       \* owned values made in one run
MaxBorrows == 2     \* borrowed references alive at once

(***************************************************************************)
(* Declarations.  A declaration is [name, markers, fields]; a field is     *)
(* [key, val].  A missing name is the empty string.                        *)
(***************************************************************************)
Field(k, v) == [key |-> k, val |-> v]

Decl(n, m, f) == [name |-> n, markers |-> m, fields |-> f]

\* pub type Foo: Sync + Send { CType = FOO; drop = FOO_free; clone = FOO_duplicate }
FooCloneDecl ==
    Decl("Foo", {"Sync", "Send"},
         <<Field("CType", "FOO"), Field("drop", "FOO_free"),
           Field("clone", "FOO_duplicate")>>)

\* pub type Foo: Sync + Send { CType = FOO; drop = FOO_free }
FooDecl ==
    Decl("Foo", {"Sync", "Send"},
         <<Field("CType", "FOO"), Field("drop", "FOO_free")>>)

\* pub type Bar: Sync + Send { CType = BAR; drop = BAR_free }
BarDecl ==
    Decl("Bar", {"Sync", "Send"},
         <<Field("CType", "BAR"), Field("drop", "BAR_free")>>)

\* pub type Ssl: Sync + Send { CType = SSL; drop = SSL_free; clone = SSL_dup }
SslDecl ==
    Decl("Ssl", {"Sync", "Send"},
         <<Field("CType", "SSL"), Field("drop", "SSL_free"),
           Field("clone", "SSL_dup")>>)

\* The three foreign_type! invocations of the crate documentation.
Examples == {<<FooCloneDecl>>, <<FooDecl, BarDecl>>, <<SslDecl>>}

(***************************************************************************)
(* The expansion.  foreign_type! hands its whole token stream, behind the  *)
(* crate path, to foreign_type_impl!.  The procedural macro itself lives   *)
(* in the foreign-types-macros crate.                                      *)
(***************************************************************************)
MandatoryKeys == {"CType", "drop"}
KnownKeys == MandatoryKeys \cup {"clone"}

NoDiag == [decl |-> 0, field |-> ""]

HasField(d, k) == \E i \in DOMAIN d.fields : d.fields[i].key = k

FieldVal(d, k) ==
    LET i == CHOOSE j \in DOMAIN d.fields : d.fields[j].key = k
    IN  d.fields[i].val

\* The first offending field of one declaration, "" when there is none.
Validate(d) ==
    LET f == d.fields
        bad == {i \in DOMAIN f :
                   \/ f[i].key \notin KnownKeys
                   \/ \E j \in 1..(i - 1) : f[j].key = f[i].key}
    IN  IF d.name = "" THEN "name"
        ELSE IF bad # {}
             THEN f[CHOOSE i \in bad : \A j \in bad : i <= j].key
        ELSE IF ~HasField(d, "CType") THEN "CType"
        ELSE IF ~HasField(d, "drop") THEN "drop"
        ELSE ""

\* The wrapper pair one well-formed declaration generates.
Generate(crate, d) ==
    [name |-> d.name,
     ref |-> d.name \o "Ref",
     ctype |-> FieldVal(d, "CType"),
     drop |-> FieldVal(d, "drop"),
     clone |-> IF HasField(d, "clone") THEN FieldVal(d, "clone") ELSE "none",
     markers |-> d.markers,
     crate |-> crate]

foreign_type_impl(crate, decls) ==
    LET bad == {i \in DOMAIN decls :
                   \/ Validate(decls[i]) # ""
                   \/ \E j \in 1..(i - 1) : decls[j].name = decls[i].name}
        first == CHOOSE i \in bad : \A j \in bad : i <= j
    IN  IF bad = {}
        THEN [ok |-> TRUE,
              types |-> {Generate(crate, decls[i]) : i \in DOMAIN decls},
              diag |-> NoDiag]
        ELSE [ok |-> FALSE,
              types |-> {},
              diag |-> [decl |-> first,
                        field |-> IF Validate(decls[first]) # ""
                                  THEN Validate(decls[first])
                                  ELSE "name"]]

\* A plausible slip: only the first token tree is forwarded.
foreign_type_first_only(t) ==
    foreign_type_impl("foreign_types", IF t = <<>> THEN t ELSE <<Head(t)>>)

foreign_type(t) == foreign_type_impl("foreign_types", t)

(***************************************************************************)
(* Candidate declarations for the generation part: every field list of at  *)
(* most MaxFields fields over the known keys and one invalid key, with and *)
(* without a name, alone or followed by one more declaration.              *)
(***************************************************************************)
CandidateFields ==
    {Field("CType", "FOO"), Field("drop", "FOO_free"),
     Field("clone", "FOO_duplicate"), Field("finalize", "FOO_free")}

FieldLists ==
    UNION {[1..n -> CandidateFields] : n \in 0..MaxFields}

CandidateDecls ==
    {Decl(n, {}, f) : n \in {"", "Foo"}, f \in FieldLists}

SecondDecls ==
    {FooDecl, BarDecl, Decl("Bar", {}, <<Field("CType", "BAR")>>)}

Groups ==
    {<<d>> : d \in CandidateDecls}
        \cup {<<d, e>> : d \in CandidateDecls, e \in SecondDecls}

NoResult == [ok |-> FALSE, types |-> {}, diag |-> NoDiag]

Types == result.types

TypeOf(n) == CHOOSE t \in Types : t.name = n

(***************************************************************************)
(* Pointers and the foreign library.                                       *)
(***************************************************************************)
Ptr(n) == [obj |-> n, part |-> "self"]

NullPtr == Ptr(0)

\* BAR_get_foo returns a reference into the BAR passed to it.
BAR_get_foo(bar) == [obj |-> bar.obj, part |-> "foo"]

\* The release operations: FOO_free and BAR_free are the library's; the
\* SSL_free of the macro documentation has an empty body.
Release(fn, p) == IF fn = "SSL_free" THEN freed ELSE freed \cup {p.obj}

\* The duplicate operations: FOO_duplicate is the library's and returns a
\* copy; the SSL_dup of the macro documentation returns its argument.
Duplicate(fn, p, fresh) == IF fn = "SSL_dup" THEN p ELSE Ptr(fresh)

Allocates(fn) == fn # "SSL_dup"

(***************************************************************************)
(* The owned wrapper: ForeignType for Foo.                                 *)
(***************************************************************************)
\* Foo(NonNull::new_unchecked(ptr)); origin records who called it.
from_ptr(ty, ptr, origin) ==
    [ty |-> ty, ptr |-> ptr, live |-> TRUE, origin |-> origin]

\* self.0.as_ptr()
as_ptr(o) == o.ptr

(***************************************************************************)
(* The borrowed reference: ForeignTypeRef.  A reference is the address it  *)
(* points to and whether it is exclusive.                                  *)
(***************************************************************************)
ForeignTypeRef_from_ptr_null(ptr) == [addr |-> NullPtr, mut |-> FALSE]

ForeignTypeRef_from_ptr(ptr) == [addr |-> ptr, mut |-> FALSE]

ForeignTypeRef_from_ptr_mut(ptr) == [addr |-> ptr, mut |-> TRUE]

ForeignTypeRef_as_ptr(r) == r.addr

(***************************************************************************)
(* Borrows.  A slot holds one live reference: the owned value it derives   *)
(* from, its type, the reference, the pointer it was made from, and the    *)
(* slot of the reference it was reborrowed from (0: from the owned value). *)
(***************************************************************************)
Slots == 1..MaxBorrows

NoBorrow ==
    [used |-> FALSE, owner |-> 0, ty |-> "",
     ref |-> ForeignTypeRef_from_ptr(NullPtr), from |-> NullPtr, parent |-> 0]

Borrow(w, ty, r, p, parent) ==
    [used |-> TRUE, owner |-> w, ty |-> ty, ref |-> r, from |-> p,
     parent |-> parent]

Live == {s \in Slots : borrows[s].used}

BorrowsOf(w) == {s \in Live : borrows[s].owner = w}

\* The references made directly from the owned value w.
DerefsOf(w) == {s \in BorrowsOf(w) : borrows[s].parent = 0}

Children(b) == {s \in Live : borrows[s].parent = b}

HasFreeSlot == Live # Slots

FreeSlot == CHOOSE s \in Slots \ Live : \A t \in Slots \ Live : s <= t

Owned == DOMAIN owned

LiveOwned == {w \in Owned : owned[w].live}

\* The reference-safety rules of the host language, read off the receivers.
\* &self on an owned value: no exclusive reference derived from it is live.
CanShare(w) ==
    w \in LiveOwned /\ \A s \in DerefsOf(w) : ~borrows[s].ref.mut

\* &mut self on an owned value, or moving it: nothing derived from it is live.
CanExclude(w) == w \in LiveOwned /\ BorrowsOf(w) = {}

\* &self on a reference: no exclusive reborrow of it is live.
CanShareRef(b) ==
    b \in Live /\ \A s \in Children(b) : ~borrows[s].ref.mut

\* &mut self on a reference: it is exclusive and has no live reborrow.
CanExcludeRef(b) ==
    b \in Live /\ borrows[b].ref.mut /\ Children(b) = {}

Op(op, who, ret) == [op |-> op, who |-> who, ret |-> ret]

(***************************************************************************)
(* Generation.                                                             *)
(***************************************************************************)
ExpandMacro ==
    /\ pc = "pending"
    /\ result' = foreign_type(input)
    /\ pc' = "expanded"
    /\ UNCHANGED <<input, owned, borrows, calls, freed, allocs, last>>

(***************************************************************************)
(* Runtime.  Every operation needs an expanded program.                    *)
(***************************************************************************)
\* The integrator adopts a pointer the library has just handed out: it is
\* non-null and nothing else owns it (the precondition of from_ptr).
Adopt(t) ==
    /\ pc = "expanded"
    /\ t \in Types
    /\ Len(owned) < MaxOwned
    /\ LET p == Ptr(allocs + 1)
       IN  /\ owned' = Append(owned, from_ptr(t.name, p, "from_ptr"))
           /\ last' = Op("from_ptr", Len(owned) + 1, p)
    /\ allocs' = allocs + 1
    /\ UNCHANGED <<genVars, borrows, calls, freed>>

\* A slip: as_ptr gives the pointer away, as an into_ptr would.
OwnedAsPtr_consuming(w) ==
    /\ pc = "expanded"
    /\ CanShare(w)
    /\ last' = Op("as_ptr", w, as_ptr(owned[w]))
    /\ owned' = [owned EXCEPT ![w].live = FALSE]
    /\ UNCHANGED <<genVars, borrows, calls, freed, allocs>>

\* Foo::as_ptr(&self)
OwnedAsPtr(w) ==
    /\ pc = "expanded"
    /\ CanShare(w)
    /\ last' = Op("as_ptr", w, as_ptr(owned[w]))
    /\ UNCHANGED <<genVars, owned, borrows, calls, freed, allocs>>

\* Deref::deref(&self) -> &FooRef
Deref(w) ==
    /\ pc = "expanded"
    /\ CanShare(w)
    /\ HasFreeSlot
    /\ LET p == as_ptr(owned[w])
       IN  /\ borrows' = [borrows EXCEPT ![FreeSlot] =
                  Borrow(w, TypeOf(owned[w].ty).ref,
                         ForeignTypeRef_from_ptr(p), p, 0)]
           /\ last' = Op("deref", w, p)
    /\ UNCHANGED <<genVars, owned, calls, freed, allocs>>

\* A slip: the exclusive reference is made from a pointer other than
\* self.as_ptr().
DerefMut_wrong_ptr(w) ==
    /\ pc = "expanded"
    /\ CanExclude(w)
    /\ HasFreeSlot
    /\ LET p == as_ptr(owned[w])
       IN  /\ borrows' = [borrows EXCEPT ![FreeSlot] =
                  Borrow(w, TypeOf(owned[w].ty).ref,
                         ForeignTypeRef_from_ptr_mut(NullPtr), NullPtr, 0)]
           /\ last' = Op("deref_mut", w, p)
    /\ UNCHANGED <<genVars, owned, calls, freed, allocs>>

\* A slip: deref_mut takes &self.
DerefMut_shared_receiver(w) ==
    /\ pc = "expanded"
    /\ CanShare(w)
    /\ HasFreeSlot
    /\ LET p == as_ptr(owned[w])
       IN  /\ borrows' = [borrows EXCEPT ![FreeSlot] =
                  Borrow(w, TypeOf(owned[w].ty).ref,
                         ForeignTypeRef_from_ptr_mut(p), p, 0)]
           /\ last' = Op("deref_mut", w, p)
    /\ UNCHANGED <<genVars, owned, calls, freed, allocs>>

\* DerefMut::deref_mut(&mut self) -> &mut FooRef
DerefMut(w) ==
    /\ pc = "expanded"
    /\ CanExclude(w)
    /\ HasFreeSlot
    /\ LET p == as_ptr(owned[w])
       IN  /\ borrows' = [borrows EXCEPT ![FreeSlot] =
                  Borrow(w, TypeOf(owned[w].ty).ref,
                         ForeignTypeRef_from_ptr_mut(p), p, 0)]
           /\ last' = Op("deref_mut", w, p)
    /\ UNCHANGED <<genVars, owned, calls, freed, allocs>>

\* ForeignTypeRef::as_ptr(&self)
RefAsPtr(b) ==
    /\ pc = "expanded"
    /\ CanShareRef(b)
    /\ last' = Op("ref_as_ptr", b, ForeignTypeRef_as_ptr(borrows[b].ref))
    /\ UNCHANGED <<genVars, owned, borrows, calls, freed, allocs>>

\* BarRef::foo(&self) -> &FooRef
BarRef_foo(b) ==
    /\ pc = "expanded"
    /\ CanShareRef(b)
    /\ borrows[b].ty = "BarRef"
    /\ HasFreeSlot
    /\ LET p == BAR_get_foo(ForeignTypeRef_as_ptr(borrows[b].ref))
       IN  /\ borrows' = [borrows EXCEPT ![FreeSlot] =
                  Borrow(borrows[b].owner, "FooRef",
                         ForeignTypeRef_from_ptr(p), p, b)]
           /\ last' = Op("foo", b, p)
    /\ UNCHANGED <<genVars, owned, calls, freed, allocs>>

\* BarRef::foo_mut(&mut self) -> &mut FooRef
BarRef_foo_mut(b) ==
    /\ pc = "expanded"
    /\ CanExcludeRef(b)
    /\ borrows[b].ty = "BarRef"
    /\ HasFreeSlot
    /\ LET p == BAR_get_foo(ForeignTypeRef_as_ptr(borrows[b].ref))
       IN  /\ borrows' = [borrows EXCEPT ![FreeSlot] =
                  Borrow(borrows[b].owner, "FooRef",
                         ForeignTypeRef_from_ptr_mut(p), p, b)]
           /\ last' = Op("foo_mut", b, p)
    /\ UNCHANGED <<genVars, owned, calls, freed, allocs>>

\* A reference goes out of use; the references reborrowed from it have
\* gone before it.
EndBorrow(b) ==
    /\ pc = "expanded"
    /\ b \in Live
    /\ Children(b) = {}
    /\ borrows' = [borrows EXCEPT ![b] = NoBorrow]
    /\ last' = Op("end_borrow", b, ForeignTypeRef_as_ptr(borrows[b].ref))
    /\ UNCHANGED <<genVars, owned, calls, freed, allocs>>

\* A slip: the value is disposed of without calling the release operation.
Drop_no_release(w) ==
    /\ pc = "expanded"
    /\ CanExclude(w)
    /\ owned' = [owned EXCEPT ![w].live = FALSE]
    /\ last' = Op("drop", w, as_ptr(owned[w]))
    /\ UNCHANGED <<genVars, borrows, calls, freed, allocs>>

\* Drop::drop(&mut self): FOO_free(self.as_ptr()), as the value is disposed of.
Drop(w) ==
    /\ pc = "expanded"
    /\ CanExclude(w)
    /\ LET p == as_ptr(owned[w])
       IN  /\ calls' = [calls EXCEPT ![p.obj] = @ + 1]
           /\ freed' = Release(TypeOf(owned[w].ty).drop, p)
           /\ last' = Op("drop", w, p)
    /\ owned' = [owned EXCEPT ![w].live = FALSE]
    /\ UNCHANGED <<genVars, borrows, allocs>>

\* A slip: Clone is generated whether or not fn clone is given.
HasClone_always(t) == t.clone = t.clone

\* Whether the expansion gave the type a duplication path.
HasClone(t) == t.clone # "none"

\* The duplicate of the owned value that holds pointer p.
CloneOf(t, p) ==
    /\ Len(owned) < MaxOwned
    /\ LET q == Duplicate(t.clone, p, allocs + 1)
       IN  /\ owned' = Append(owned, from_ptr(t.name, q, "clone"))
           /\ last' = Op("clone", Len(owned) + 1, q)
    /\ allocs' = IF Allocates(t.clone) THEN allocs + 1 ELSE allocs
    /\ UNCHANGED <<genVars, borrows, calls, freed>>

\* Clone::clone(&self), generated when fn clone is given.
Clone(w) ==
    /\ pc = "expanded"
    /\ CanShare(w)
    /\ HasClone(TypeOf(owned[w].ty))
    /\ CloneOf(TypeOf(owned[w].ty), as_ptr(owned[w]))

\* ToOwned::to_owned(&self) on the borrowed type, generated with Clone.
ToOwned(b) ==
    /\ pc = "expanded"
    /\ CanShareRef(b)
    /\ \E t \in Types :
          /\ t.ref = borrows[b].ty
          /\ HasClone(t)
          /\ CloneOf(t, ForeignTypeRef_as_ptr(borrows[b].ref))

(***************************************************************************)
(* Specifications.                                                         *)
(***************************************************************************)
InitRun ==
    /\ pc = "pending"
    /\ result = NoResult
    /\ owned = <<>>
    /\ borrows = [s \in Slots |-> NoBorrow]
    /\ calls = [n \in 1..MaxOwned |-> 0]
    /\ freed = {}
    /\ allocs = 0
    /\ last = Op("none", 0, NullPtr)

\* The programs of the crate documentation.
Init == input \in Examples /\ InitRun

Next ==
    \/ ExpandMacro
    \/ \E t \in Types : Adopt(t)
    \/ \E w \in Owned : OwnedAsPtr(w)
    \/ \E w \in Owned : Deref(w)
    \/ \E w \in Owned : DerefMut(w)
    \/ \E b \in Slots : RefAsPtr(b)
    \/ \E b \in Slots : BarRef_foo(b)
    \/ \E b \in Slots : BarRef_foo_mut(b)
    \/ \E b \in Slots : EndBorrow(b)
    \/ \E w \in Owned : Drop(w)
    \/ \E w \in Owned : Clone(w)
    \/ \E b \in Slots : ToOwned(b)

Spec == Init /\ [][Next]_vars

\* Generation alone, over the candidate declarations.
InitGen == input \in Groups /\ InitRun

NextGen == ExpandMacro

SpecGen == InitGen /\ [][NextGen]_vars

(***************************************************************************)
(* Properties.                                                             *)
(***************************************************************************)
Holders(p) == {w \in Owned : as_ptr(owned[w]) = p}

\* The pointer was adopted by the integrator's from_ptr and no duplicate
\* of an owned value holds it.
AdoptedOnly(p) ==
    Holders(p) # {} /\ \A w \in Holders(p) : owned[w].origin = "from_ptr"

\* C1: for every pointer adopted by from_ptr, whatever as_ptr, deref,
\* deref_mut and disposal steps have run, the release operation has been
\* invoked on it not at all while its owned value is live and exactly once
\* from its disposal on.
C1_ReleasedExactlyOnce ==
    \A w \in Owned :
        AdoptedOnly(as_ptr(owned[w])) =>
            calls[as_ptr(owned[w]).obj] = IF owned[w].live THEN 0 ELSE 1

C1_Witness ==
    \E w \in Owned :
        /\ AdoptedOnly(as_ptr(owned[w]))
        /\ ~owned[w].live
        /\ calls[as_ptr(owned[w]).obj] = 1
        /\ last.op = "as_ptr"

\* C2: no two live owned values hold the same pointer.
C2_NoAliasedOwners ==
    \A v, w \in LiveOwned : v # w => as_ptr(owned[v]) # as_ptr(owned[w])

\* C3: a duplicate holds a pointer different from that of every owned value
\* made before it (the original among them), and each pointer is released
\* at most once, exactly once when every owned value holding it is disposed.
C3_DuplicateIsFresh ==
    /\ \A w \in Owned :
           owned[w].origin = "clone" =>
               \A v \in 1..(w - 1) : as_ptr(owned[v]) # as_ptr(owned[w])
    /\ \A w \in Owned :
           calls[as_ptr(owned[w]).obj] =
               IF Holders(as_ptr(owned[w])) \cap LiveOwned # {} THEN 0 ELSE 1

\* C4: as_ptr on an owned value or on a reference returns the pointer held
\* and changes nothing else; the release operation is invoked only by a
\* disposal, and an owned value stops being live only by a disposal.
C4_AsPtrOnlyReads ==
    [][/\ last'.op = "as_ptr" =>
              /\ UNCHANGED <<owned, borrows, calls, freed, allocs>>
              /\ last'.ret = owned[last'.who].ptr
       /\ last'.op = "ref_as_ptr" =>
              /\ UNCHANGED <<owned, borrows, calls, freed, allocs>>
              /\ last'.ret = borrows[last'.who].ref.addr
       /\ (calls' # calls \/ freed' # freed) => last'.op = "drop"
       /\ (\E w \in Owned : owned[w].live /\ ~owned'[w].live) =>
              last'.op = "drop"]_vars

C4_Witness ==
    /\ last.op = "as_ptr"
    /\ owned[last.who].live
    /\ last.ret = owned[last.who].ptr
    /\ calls[last.ret.obj] = 0
    /\ \E w \in Owned : ~owned[w].live

\* C5: a reference obtained by deref or deref_mut of an owned value has
\* the as_ptr of that owned value.
C5_DerefKeepsPointer ==
    \A w \in Owned : \A s \in DerefsOf(w) :
        ForeignTypeRef_as_ptr(borrows[s].ref) = as_ptr(owned[w])

C5_Witness ==
    \E w \in Owned : \E s \in DerefsOf(w) :
        /\ borrows[s].ref.mut
        /\ ForeignTypeRef_as_ptr(borrows[s].ref) = as_ptr(owned[w])
        /\ last.op = "ref_as_ptr"
        /\ last.who = s

NoCloneNames ==
    {input[i].name : i \in {j \in DOMAIN input : ~HasField(input[j], "clone")}}

\* C7: for a type declared without a duplicate operation, a new owned value
\* appears only by adoption, never by a duplicate step, and its disposal
\* invokes the release operation on its pointer.
C7_NoCloneWithoutDuplicate ==
    [][\A n \in NoCloneNames :
          /\ (Len(owned') > Len(owned) /\ owned'[Len(owned')].ty = n) =>
                 /\ last'.op = "from_ptr"
                 /\ owned'[Len(owned')].origin = "from_ptr"
          /\ (last'.op = "drop" /\ owned[last'.who].ty = n
                  /\ owned[last'.who].live) =>
                 calls'[last'.ret.obj] = calls[last'.ret.obj] + 1]_vars

C7_Witness ==
    /\ NoCloneNames = {"Foo", "Bar"}
    /\ Len(owned) = MaxOwned
    /\ \E v, w \in Owned :
          /\ owned[v].ty = "Foo" /\ owned[w].ty = "Bar"
          /\ ~owned[v].live /\ owned[w].live
          /\ calls[as_ptr(owned[v]).obj] = 1

\* What is wrong with field f of declaration i of the group g, if anything.
Offending(g, i, f) ==
    LET d == g[i]
    IN  \/ f = "name" /\ d.name = ""
        \/ f = "name" /\ \E j \in DOMAIN g : j # i /\ g[j].name = d.name
        \/ f \in MandatoryKeys /\ ~HasField(d, f)
        \/ HasField(d, f) /\ f \notin KnownKeys
        \/ \E j, k \in DOMAIN d.fields :
               j # k /\ d.fields[j].key = f /\ d.fields[k].key = f

Malformed(g) ==
    \E i \in DOMAIN g :
        \E f \in {"name"} \cup KnownKeys
                     \cup {g[i].fields[j].key : j \in DOMAIN g[i].fields} :
            Offending(g, i, f)

\* C8: a group of declarations with a missing mandatory field, or with a
\* conflicting or invalid field, expands to no wrapper type and a
\* diagnostic naming an offending field of one of its declarations; a
\* well-formed group expands to one wrapper pair per declaration and no
\* diagnostic.  Nothing is left to the run to validate.
C8_MalformedRejected ==
    pc = "expanded" =>
        /\ Malformed(input) =>
               /\ ~result.ok
               /\ result.types = {}
               /\ result.diag.decl \in DOMAIN input
               /\ Offending(input, result.diag.decl, result.diag.field)
        /\ ~Malformed(input) =>
               /\ result.ok
               /\ result.diag = NoDiag
               /\ {t.name : t \in result.types}
                      = {input[i].name : i \in DOMAIN input}
               /\ Cardinality(result.types) = Len(input)
        /\ owned = <<>>

C8_Witness ==
    /\ pc = "expanded"
    /\ Len(input) = 2
    /\ ~Malformed(<<input[1]>>)
    /\ Malformed(input)
    /\ ~result.ok
    /\ result.diag = [decl |-> 2, field |-> "drop"]

\* A reference no live reborrow keeps from being used.
Usable(s) == Children(s) = {}

C10_NoUseAfterRelease ==
    \A s \in Live : calls[borrows[s].ref.addr.obj] = 0

====
